---- MODULE Spec2Model ----
(***************************************************************************)
(* cats-social: the cat-match service, the cat repository it relies on,    *)
(* and the authentication middleware of the /v1/cat route group.           *)
(*                                                                         *)
(* The database is the state: the cats table and the cat_matches table.    *)
(* Every service call runs in one transaction, so a call is one action:    *)
(* the statements see the transaction's view, and the view becomes the     *)
(* persisted table only when Commit succeeds.  Infrastructure failures     *)
(* (BeginTx, a statement, Commit) are inputs of the call.                  *)
(*                                                                         *)
(* internal/repository's CatMatchRepository and UserRepository and the     *)
(* handlers HandleUpdateCat / HandleDeleteCat are not among the source     *)
(* files; the definitions that stand for them are modelled from the        *)
(* specification (sections 3 and 4.1) and are marked "spec" below.         *)
(***************************************************************************)
EXTENDS Integers, Sequences, FiniteSets, TLC

VARIABLES cats, cat_matches, last, txs

vars == <<cats, cat_matches, last, txs>>

----------------------------------------------------------------------------
(* Bounds of the model *)

MaxCats == 2

MaxMatches == 2

MaxDefects == 1

MaxTxs == 2

MaxParams == 2

----------------------------------------------------------------------------
(* Program constants *)

\* service/cat-match.go:110  userId := "e91ce26e-9a53-4c4f-b5b5-0cad1a61d82b"
PlaceholderUserId == "e91ce26e"

Users == {"u1", PlaceholderUserId}

\* part_000:44  slices.Contains(models.CatSex, catBody.Sex)
CatSex == {"male", "female"}

Messages == {"hi"}

CatIds == 1..MaxCats

MatchIds == 1..MaxMatches

ErrNil == "nil"

BadRequest == "BadRequest"

NotFound == "NotFound"

InternalServerError == "InternalServerError"

Unauthenticated == "Unauthenticated"

\* domain.MessageErr.Status(): the HTTP status of an error kind
Status(err) ==
  CASE err = BadRequest -> 400
    [] err = Unauthenticated -> 401
    [] err = NotFound -> 404
    [] OTHER -> 500

----------------------------------------------------------------------------
(* Sequence helpers *)

RECURSIVE SelectRows(_, _)
SelectRows(rows, keep) ==
  IF rows = << >> THEN << >>
  ELSE IF Head(rows).id \in keep
       THEN <<Head(rows)>> \o SelectRows(Tail(rows), keep)
       ELSE SelectRows(Tail(rows), keep)

RowIds(rows) == {rows[i].id : i \in 1..Len(rows)}

RowSet(rows) == {rows[i] : i \in 1..Len(rows)}

----------------------------------------------------------------------------
(* Cat repository (part_001) *)

\* INSERT INTO cats (...) VALUES (...): has_matched and deleted take the
\* column defaults (false); the id is the fresh uuid of the new cat.
CreateCat(cs, sex, owner) ==
  LET id == Cardinality(DOMAIN cs) + 1
  IN  [c \in (DOMAIN cs) \cup {id} |->
         IF c = id
         THEN [sex |-> sex, owned_by_id |-> owner,
               has_matched |-> FALSE, deleted |-> FALSE]
         ELSE cs[c]]

\* UPDATE cats SET name, race, sex, ... WHERE id = $1: owned_by_id,
\* has_matched and deleted are not in the SET list.
UpdateCat(cs, catId, sex) ==
  [c \in DOMAIN cs |-> IF c = catId THEN [cs[c] EXCEPT !.sex = sex] ELSE cs[c]]

\* UPDATE cats SET deleted = true WHERE id = $1
DeleteCat(cs, catId) ==
  [c \in DOMAIN cs |->
     IF c = catId THEN [cs[c] EXCEPT !.deleted = TRUE] ELSE cs[c]]

\* EXISTS (cats WHERE id = $1 AND owned_by_id = $2 AND deleted = false)
CheckCatExists(cs, catId, userId) ==
  /\ catId \in DOMAIN cs
  /\ cs[catId].owned_by_id = userId
  /\ ~cs[catId].deleted

\* The scanned booleans of a one-row query; ok = FALSE is sql.ErrNoRows.
NoRows == [ok |-> FALSE, val |-> FALSE]

Scanned(b) == [ok |-> TRUE, val |-> b]

\* SELECT (sex != $1), NOT EXISTS (cat_matches WHERE user_cat_id = $2)
\* FROM cats WHERE id = $2;  returns sexDiff && !canEdit
CheckEditableSex(cs, rows, catId, sex) ==
  IF catId \notin DOMAIN cs THEN NoRows
  ELSE LET sexDiff == cs[catId].sex # sex
           canEdit == ~(\E i \in 1..Len(rows) : rows[i].user_cat_id = catId)
       IN  Scanned(sexDiff /\ ~canEdit)

\* The row set of "FROM cats c1 JOIN cats c2 ON c2.id != c1.id
\* WHERE c1.id = $1 AND c2.id = $2": one row, or none.
JoinedPair(cs, cat1Id, cat2Id) ==
  cat1Id \in DOMAIN cs /\ cat2Id \in DOMAIN cs /\ cat2Id # cat1Id

CheckCatHasSameSex(cs, cat1Id, cat2Id) ==
  IF JoinedPair(cs, cat1Id, cat2Id)
  THEN Scanned(cs[cat1Id].sex = cs[cat2Id].sex)
  ELSE NoRows

CheckCatHasMatched(cs, cat1Id, cat2Id) ==
  IF JoinedPair(cs, cat1Id, cat2Id)
  THEN Scanned(cs[cat1Id].has_matched \/ cs[cat2Id].has_matched)
  ELSE NoRows

CheckCatFromSameOwner(cs, cat1Id, cat2Id) ==
  IF JoinedPair(cs, cat1Id, cat2Id)
  THEN Scanned(cs[cat1Id].owned_by_id = cs[cat2Id].owned_by_id)
  ELSE NoRows

\* EXISTS (cats WHERE id = $1 AND deleted = false) AND EXISTS (... id = $2 ...)
CheckBothCatExists(cs, cat1Id, cat2Id) ==
  Scanned(/\ cat1Id \in DOMAIN cs /\ ~cs[cat1Id].deleted
          /\ cat2Id \in DOMAIN cs /\ ~cs[cat2Id].deleted)

----------------------------------------------------------------------------
(* Cat-match repository (spec, section 4.1) *)

\* The payload the service hands to the repository; nil is the handler's
\* literal nil argument.
NilPayload == [nil |-> TRUE, user_cat_id |-> 0, match_cat_id |-> 0, message |-> ""]

Payload(userCat, matchCat, msg) ==
  [nil |-> FALSE, user_cat_id |-> userCat, match_cat_id |-> matchCat, message |-> msg]

FreshMatchId(rows) == CHOOSE i \in 1..(Len(rows) + 1) : i \notin RowIds(rows)

\* CreateMatch(tx, match): inserts the row with status waiting; fails on a
\* constraint violation (a nil match, a cat id that is no row of cats) or a
\* connectivity failure (stmtFails).
RepoCreateCatMatch(cs, rows, payload, stmtFails) ==
  IF \/ stmtFails
     \/ payload.nil
     \/ payload.user_cat_id \notin DOMAIN cs
     \/ payload.match_cat_id \notin DOMAIN cs
  THEN [err |-> TRUE, rows |-> rows]
  ELSE [err |-> FALSE,
        rows |-> Append(rows, [id |-> FreshMatchId(rows),
                               user_cat_id |-> payload.user_cat_id,
                               match_cat_id |-> payload.match_cat_id,
                               message |-> payload.message,
                               status |-> "waiting"])]

\* The user on whose behalf a match was issued / who receives it: the owner
\* of the row's user cat / match cat.
Issuer(cs, row) == cs[row.user_cat_id].owned_by_id

Receiver(cs, row) == cs[row.match_cat_id].owned_by_id

\* GetMatchesForParticipant(tx, id): the rows where id is issuer or receiver,
\* each joined with both cats, in table order.
RepoGetCatMatchesByIssuerOrReceiverID(cs, rows, id) ==
  LET keep == {rows[i].id : i \in
                 {j \in 1..Len(rows) : Issuer(cs, rows[j]) = id
                                       \/ Receiver(cs, rows[j]) = id}}
      sel == SelectRows(rows, keep)
  IN  [i \in 1..Len(sel) |->
         [ID |-> sel[i].id, Message |-> sel[i].message,
          MatchCat |-> [ID |-> sel[i].match_cat_id] @@ cs[sel[i].match_cat_id],
          UserCat |-> [ID |-> sel[i].user_cat_id] @@ cs[sel[i].user_cat_id]]]

\* CanUserDeleteMatch(tx, matchID, userID): the user is the issuer of the
\* match; false if the match is not found.
RepoCanDeleteCatMatch(cs, rows, id, userId) ==
  \E i \in 1..Len(rows) : rows[i].id = id /\ Issuer(cs, rows[i]) = userId

\* GetMatchStatus(tx, matchID): the status; NotFound (ok = FALSE) if absent.
RepoGetStatusCatMatchByID(rows, id) ==
  IF id \in RowIds(rows)
  THEN [ok |-> TRUE, status |-> (CHOOSE r \in RowSet(rows) : r.id = id).status]
  ELSE [ok |-> FALSE, status |-> ""]

\* DeleteMatch(tx, matchID): removes the row.
RepoDeleteCatMatch(rows, id) == SelectRows(rows, RowIds(rows) \ {id})

----------------------------------------------------------------------------
(* database/sql transactions *)

\* What a call leaves behind: the table is the transaction's view when the
\* transaction committed, and the table as it was before the call otherwise
\* (the deferred tx.Rollback(), or no transaction at all).
Outcome(err, tx, before, view, resp) ==
  [err |-> err, tx |-> tx,
   rows |-> IF tx = "committed" THEN view ELSE before,
   resp |-> resp]

\* The points at which the infrastructure can fail during a call.
CreateFailPoints == {"none", "begin", "exec", "commit"}

GetFailPoints == {"none", "begin", "exec", "commit"}

DeleteFailPoints == {"none", "begin", "canDelete", "getStatus", "exec", "commit"}

----------------------------------------------------------------------------
(* Cat-match service (internal/service/cat-match.go) *)

\* catMatchService.CreateCatMatch
SvcCreateCatMatch(cs, rows, payload, fail) ==
  IF fail = "begin"
  THEN Outcome(BadRequest, "none", rows, rows, << >>)
  ELSE LET r == RepoCreateCatMatch(cs, rows, payload, fail = "exec")
       IN  IF r.err
           THEN Outcome(BadRequest, "rolledback", rows, r.rows, << >>)
           ELSE IF fail = "commit"
                THEN Outcome(BadRequest, "rolledback", rows, r.rows, << >>)
                ELSE Outcome(ErrNil, "committed", rows, r.rows, << >>)

\* The statements catMatchService.CreateCatMatch executes, in order, and the
\* message of the error it returns ("" when it returns nil).
SvcCreateCatMatchRun(cs, rows, payload, fail) ==
  IF fail = "begin"
  THEN [stmts |-> <<"BeginTx">>, msg |-> "Failed to start transaction"]
  ELSE IF RepoCreateCatMatch(cs, rows, payload, fail = "exec").err
  THEN [stmts |-> <<"BeginTx", "CreateCatMatch">>,
        msg |-> "Failed to create cat match"]
  ELSE IF fail = "commit"
  THEN [stmts |-> <<"BeginTx", "CreateCatMatch", "Commit">>,
        msg |-> "Failed to commit transaction"]
  ELSE [stmts |-> <<"BeginTx", "CreateCatMatch", "Commit">>, msg |-> ""]

\* domain.CatResponse built from a joined cat: ID, Sex, HasMatched (and the
\* descriptive columns, which the model does not carry).
CatResponse(cat) ==
  [ID |-> cat.ID, Sex |-> cat.sex, HasMatched |-> cat.has_matched]

\* The loop with the two cats of a response taken from the wrong fields.
MapCatMatchResponsesSwapped(catMatches) ==
  [i \in 1..Len(catMatches) |->
     [ID |-> catMatches[i].ID,
      Message |-> catMatches[i].Message,
      MatchCat |-> CatResponse(catMatches[i].UserCat),
      UserCat |-> CatResponse(catMatches[i].MatchCat)]]

\* The loop of GetCatMatchesByIssuerOrReceiverID: one response per match.
MapCatMatchResponses(catMatches) ==
  [i \in 1..Len(catMatches) |->
     [ID |-> catMatches[i].ID,
      Message |-> catMatches[i].Message,
      MatchCat |-> CatResponse(catMatches[i].MatchCat),
      UserCat |-> CatResponse(catMatches[i].UserCat)]]

\* catMatchService.GetCatMatchesByIssuerOrReceiverID: the result of
\* tx.Commit() is dropped.
SvcGetCatMatches(cs, rows, id, fail) ==
  IF fail = "begin"
  THEN Outcome(BadRequest, "none", rows, rows, << >>)
  ELSE IF fail = "exec"
       THEN Outcome(BadRequest, "rolledback", rows, rows, << >>)
       ELSE Outcome(ErrNil,
                    IF fail = "commit" THEN "rolledback" ELSE "committed",
                    rows, rows,
                    MapCatMatchResponses(
                      RepoGetCatMatchesByIssuerOrReceiverID(cs, rows, id)))

\* catMatchService.UpdateCatMatchByID: return nil, nil
SvcUpdateCatMatchByID(rows) == Outcome(ErrNil, "none", rows, rows, << >>)

\* DeleteCatMatch with the result of tx.Commit() dropped, as the listing
\* drops it.
SvcDeleteCatMatchCommitUnchecked(cs, rows, id, fail) ==
  IF fail = "begin"
  THEN Outcome(InternalServerError, "none", rows, rows, << >>)
  ELSE LET view == RepoDeleteCatMatch(rows, id)
           st == RepoGetStatusCatMatchByID(rows, id)
       IN  IF fail = "canDelete"
           THEN Outcome(InternalServerError, "rolledback", rows, rows, << >>)
           ELSE IF ~RepoCanDeleteCatMatch(cs, rows, id, PlaceholderUserId)
           THEN Outcome(NotFound, "rolledback", rows, rows, << >>)
           ELSE IF fail = "getStatus" \/ ~st.ok
           THEN Outcome(InternalServerError, "rolledback", rows, rows, << >>)
           ELSE IF st.status # "waiting"
           THEN Outcome(BadRequest, "rolledback", rows, rows, << >>)
           ELSE IF fail = "exec"
           THEN Outcome(BadRequest, "rolledback", rows, rows, << >>)
           ELSE Outcome(ErrNil,
                        IF fail = "commit" THEN "rolledback" ELSE "committed",
                        rows, view, << >>)

\* catMatchService.DeleteCatMatch: the user id of the authorization check is
\* the literal of line 110, whoever the requester is.
SvcDeleteCatMatch(cs, rows, id, fail) ==
  IF fail = "begin"
  THEN Outcome(InternalServerError, "none", rows, rows, << >>)
  ELSE LET userId == PlaceholderUserId
           view == RepoDeleteCatMatch(rows, id)
           st == RepoGetStatusCatMatchByID(rows, id)
       IN  IF fail = "canDelete"
           THEN Outcome(InternalServerError, "rolledback", rows, rows, << >>)
           ELSE IF ~RepoCanDeleteCatMatch(cs, rows, id, userId)
           THEN Outcome(NotFound, "rolledback", rows, rows, << >>)
           ELSE IF fail = "getStatus" \/ ~st.ok
           THEN Outcome(InternalServerError, "rolledback", rows, rows, << >>)
           ELSE IF st.status # "waiting"
           THEN Outcome(BadRequest, "rolledback", rows, rows, << >>)
           ELSE IF fail = "exec"
           THEN Outcome(BadRequest, "rolledback", rows, rows, << >>)
           ELSE IF fail = "commit"
           THEN Outcome(InternalServerError, "rolledback", rows, view, << >>)
           ELSE Outcome(ErrNil, "committed", rows, view, << >>)

----------------------------------------------------------------------------
(* The calls *)

\* What is recorded of the last call.
Call(op, entry, req, payload, id, requester, fail, out, pre, status) ==
  [op |-> op, entry |-> entry, req |-> req, payload |-> payload, id |-> id,
   requester |-> requester, fail |-> fail, err |-> out.err, tx |-> out.tx,
   resp |-> out.resp, pre |-> pre, status |-> status]

PayloadCatIds == CatIds \cup {0}

\* The service's CreateCatMatch called with the request as its payload.
CreateCatMatch(userCat, matchCat, msg, fail) ==
  /\ Len(cat_matches) < MaxMatches
  /\ LET req == Payload(userCat, matchCat, msg)
         out == SvcCreateCatMatch(cats, cat_matches, req, fail)
     IN  /\ cat_matches' = out.rows
         /\ last' = Call("CreateCatMatch", "service", req, req, 0, "", fail,
                         out, cat_matches, 0)
  /\ UNCHANGED <<cats, txs>>

\* handler.CreateCatMatch: c.catMatchService.CreateCatMatch(ctx, nil); the
\* request body is never bound.  201 on success, err.Status() otherwise.
HandlerCreateCatMatch(userCat, matchCat, msg, fail) ==
  /\ Len(cat_matches) < MaxMatches
  /\ LET req == Payload(userCat, matchCat, msg)
         out == SvcCreateCatMatch(cats, cat_matches, NilPayload, fail)
     IN  /\ cat_matches' = out.rows
         /\ last' = Call("CreateCatMatch", "handler", req, NilPayload, 0, "",
                         fail, out, cat_matches,
                         IF out.err = ErrNil THEN 201 ELSE Status(out.err))
  /\ UNCHANGED <<cats, txs>>

GetCatMatches(id, fail) ==
  /\ LET out == SvcGetCatMatches(cats, cat_matches, id, fail)
     IN  /\ cat_matches' = out.rows
         /\ last' = Call("GetCatMatches", "service", NilPayload, NilPayload, 0,
                         id, fail, out, cat_matches, 0)
  /\ UNCHANGED <<cats, txs>>

UpdateCatMatchByID(id) ==
  /\ LET out == SvcUpdateCatMatchByID(cat_matches)
     IN  /\ cat_matches' = out.rows
         /\ last' = Call("UpdateCatMatchByID", "service", NilPayload, NilPayload,
                         id, "", "none", out, cat_matches, 0)
  /\ UNCHANGED <<cats, txs>>

\* The service's DeleteCatMatch(ctx, id); requester is the authenticated user
\* of the request, which the service does not read.
DeleteCatMatch(id, requester, fail) ==
  /\ LET out == SvcDeleteCatMatch(cats, cat_matches, id, fail)
     IN  /\ cat_matches' = out.rows
         /\ last' = Call("DeleteCatMatch", "service", NilPayload, NilPayload, id,
                         requester, fail, out, cat_matches, 0)
  /\ UNCHANGED <<cats, txs>>

\* handler.DeleteCatMatch: ctx.JSON(200, "Delete Cat Match"); no service call.
HandlerDeleteCatMatch(id, requester) ==
  /\ last' = Call("DeleteCatMatch", "handler", NilPayload, NilPayload, id,
                  requester, "none",
                  Outcome(ErrNil, "none", cat_matches, cat_matches, << >>),
                  cat_matches, 200)
  /\ UNCHANGED <<cats, cat_matches, txs>>

\* What is recorded of a cat operation.
CatCall(op, catId, userId, err) ==
  [op |-> op, entry |-> "cat", id |-> catId, requester |-> userId, err |-> err,
   pre |-> cat_matches]

\* CreateCat of the cat repository, for a user and a valid sex.
AddCat(sex, owner) ==
  /\ Cardinality(DOMAIN cats) < MaxCats
  /\ cats' = CreateCat(cats, sex, owner)
  /\ last' = CatCall("CreateCat", Cardinality(DOMAIN cats) + 1, owner, ErrNil)
  /\ UNCHANGED <<cat_matches, txs>>

\* (spec) The update of a cat by a user: the cat must be the user's and not
\* deleted (CheckCatExists), its sex must be editable (CheckEditableSex), and
\* then the row is updated (UpdateCat).
HandleUpdateCat(catId, userId, sex) ==
  /\ LET editable == CheckEditableSex(cats, cat_matches, catId, sex)
         err == IF ~CheckCatExists(cats, catId, userId) THEN NotFound
                ELSE IF ~editable.ok THEN InternalServerError
                ELSE IF editable.val THEN BadRequest
                ELSE ErrNil
     IN  /\ cats' = IF err = ErrNil THEN UpdateCat(cats, catId, sex) ELSE cats
         /\ last' = CatCall("UpdateCat", catId, userId, err)
  /\ UNCHANGED <<cat_matches, txs>>

\* DeleteCat of the cat repository: the soft delete.
SoftDeleteCat(catId) ==
  /\ catId \in DOMAIN cats
  /\ cats' = DeleteCat(cats, catId)
  /\ last' = CatCall("DeleteCat", catId, "", ErrNil)
  /\ UNCHANGED <<cat_matches, txs>>

----------------------------------------------------------------------------
(* The database the service starts on: empty, or holding one resolved match *)
(* between two cats of different sex and different owners (has_matched is   *)
(* set on both cats of an approved match).                                  *)

ResolvedStatuses == {"approved", "rejected"}

SeededCats(o1, o2, matched) ==
  [c \in {1, 2} |->
     [sex |-> IF c = 1 THEN "male" ELSE "female",
      owned_by_id |-> IF c = 1 THEN o1 ELSE o2,
      has_matched |-> matched, deleted |-> FALSE]]

SeededMatch(st) ==
  <<[id |-> 1, user_cat_id |-> 1, match_cat_id |-> 2, message |-> "hi",
     status |-> st]>>

\* The calls of CreateCatMatch that run concurrently, each in its own
\* transaction, and the state of a call that has not started.
Txs == 1..MaxTxs

IdleTx ==
  [pc |-> "idle", payload |-> NilPayload, fail |-> "none", seen |-> << >>,
   written |-> << >>, err |-> ErrNil]

Init ==
  /\ last = [op |-> "init", entry |-> "", err |-> ErrNil, pre |-> << >>]
  /\ txs = [t \in Txs |-> IdleTx]
  /\ \/ /\ cats = << >>
        /\ cat_matches = << >>
     \/ \E o1 \in Users, o2 \in Users, st \in ResolvedStatuses :
          /\ o1 # o2
          /\ cats = SeededCats(o1, o2, st = "approved")
          /\ cat_matches = SeededMatch(st)

Next ==
  \/ \E s \in CatSex, o \in Users : AddCat(s, o)
  \/ \E c \in CatIds, u \in Users, s \in CatSex : HandleUpdateCat(c, u, s)
  \/ \E c \in CatIds : SoftDeleteCat(c)
  \/ \E a \in PayloadCatIds, b \in PayloadCatIds, m \in Messages,
        f \in CreateFailPoints : CreateCatMatch(a, b, m, f)
  \/ \E a \in PayloadCatIds, b \in PayloadCatIds, m \in Messages,
        f \in CreateFailPoints : HandlerCreateCatMatch(a, b, m, f)
  \/ \E u \in Users, f \in GetFailPoints : GetCatMatches(u, f)
  \/ \E i \in MatchIds : UpdateCatMatchByID(i)
  \/ \E i \in MatchIds, u \in Users, f \in DeleteFailPoints : DeleteCatMatch(i, u, f)
  \/ \E i \in MatchIds, u \in Users : HandlerDeleteCatMatch(i, u)

Spec == Init /\ [][Next]_vars

----------------------------------------------------------------------------
(* Concurrent calls of CreateCatMatch, statement by statement.  Each call   *)
(* runs in its own transaction (c.db.BeginTx): its statements read the      *)
(* committed rows and its own writes, and its writes become rows of the     *)
(* table at tx.Commit().  The service takes no lock and the repository      *)
(* statement is a plain insert.                                             *)

\* The rows written by transactions that have not committed yet.
RECURSIVE Uncommitted(_)
Uncommitted(ts) ==
  IF ts = {} THEN << >>
  ELSE LET t == CHOOSE x \in ts : TRUE
       IN  (IF txs[t].pc = "inserted" THEN txs[t].written ELSE << >>)
             \o Uncommitted(ts \ {t})

\* tx, err := c.db.BeginTx(ctx, nil); return BadRequest on error.
TxBegin(t, userCat, matchCat, msg, fails) ==
  /\ txs[t].pc = "idle"
  /\ txs' = [txs EXCEPT ![t] =
               IF fails
               THEN [IdleTx EXCEPT !.pc = "done", !.fail = "begin",
                                   !.payload = Payload(userCat, matchCat, msg),
                                   !.err = BadRequest]
               ELSE [IdleTx EXCEPT !.pc = "begun",
                                   !.payload = Payload(userCat, matchCat, msg)]]
  /\ UNCHANGED <<cats, cat_matches, last>>

\* The insert step of a service that first refuses the request when a
\* committed row references one of its two cats.
TxInsertChecked(t, fails) ==
  /\ txs[t].pc = "begun"
  /\ Len(cat_matches) + Len(Uncommitted(Txs)) < MaxMatches
  /\ LET allocated == cat_matches \o Uncommitted(Txs)
         r == RepoCreateCatMatch(cats, allocated, txs[t].payload, fails)
         taken == \E i \in DOMAIN cat_matches :
                    {cat_matches[i].user_cat_id, cat_matches[i].match_cat_id}
                      \cap {txs[t].payload.user_cat_id,
                            txs[t].payload.match_cat_id} # {}
     IN  txs' = [txs EXCEPT ![t] =
                   IF r.err \/ taken
                   THEN [@ EXCEPT !.pc = "done", !.err = BadRequest,
                                  !.fail = IF fails THEN "exec" ELSE "none",
                                  !.seen = cat_matches]
                   ELSE [@ EXCEPT !.pc = "inserted", !.seen = cat_matches,
                                  !.written = <<r.rows[Len(r.rows)]>>]]
  /\ UNCHANGED <<cats, cat_matches, last>>

\* _, err = c.catMatchRepository.CreateCatMatch(ctx, tx, catMatchPayload);
\* on error return BadRequest (the deferred tx.Rollback() runs).  The id of
\* the new row differs from the id of every other row, committed or not.
TxInsert(t, fails) ==
  /\ txs[t].pc = "begun"
  /\ Len(cat_matches) + Len(Uncommitted(Txs)) < MaxMatches
  /\ LET allocated == cat_matches \o Uncommitted(Txs)
         r == RepoCreateCatMatch(cats, allocated, txs[t].payload, fails)
     IN  txs' = [txs EXCEPT ![t] =
                   IF r.err
                   THEN [@ EXCEPT !.pc = "done", !.err = BadRequest,
                                  !.fail = IF fails THEN "exec" ELSE "none",
                                  !.seen = cat_matches]
                   ELSE [@ EXCEPT !.pc = "inserted", !.seen = cat_matches,
                                  !.written = <<r.rows[Len(r.rows)]>>]]
  /\ UNCHANGED <<cats, cat_matches, last>>

\* err = tx.Commit(); on error return BadRequest, otherwise return nil.
TxCommit(t, fails) ==
  /\ txs[t].pc = "inserted"
  /\ cat_matches' = IF fails THEN cat_matches
                    ELSE cat_matches \o txs[t].written
  /\ txs' = [txs EXCEPT ![t] =
               IF fails
               THEN [@ EXCEPT !.pc = "done", !.err = BadRequest,
                              !.fail = "commit"]
               ELSE [@ EXCEPT !.pc = "done"]]
  /\ UNCHANGED <<cats, last>>

NextConcurrent ==
  \/ \E s \in CatSex, o \in Users : AddCat(s, o)
  \/ \E t \in Txs, a \in PayloadCatIds, b \in PayloadCatIds, m \in Messages,
        f \in BOOLEAN : TxBegin(t, a, b, m, f)
  \/ \E t \in Txs, f \in BOOLEAN : TxInsert(t, f)
  \/ \E t \in Txs, f \in BOOLEAN : TxCommit(t, f)

\* Cats being added while calls of CreateCatMatch run concurrently.
SpecConcurrent == Init /\ [][NextConcurrent]_vars

----------------------------------------------------------------------------
(* Bearer tokens (internal/models/user.go) *)

\* The JWT_SECRET of the server's environment, and any other key.
JWTSecret == "secret"

SigningKeys == {JWTSecret, "other"}

\* How a claim arrives in the token's JSON payload.
JSONKinds == {"string", "number", "absent"}

\* The Go type encoding/json gives a decoded claim in a jwt.MapClaims.
JSONDecode(kind) ==
  CASE kind = "string" -> "string"
    [] kind = "number" -> "float64"
    [] OTHER -> "nil"

\* An Authorization header: whether it starts with "Bearer", the number of
\* its whitespace-separated fields, and the JWT that is its second field.
AllHeaders ==
  [prefix : BOOLEAN, nfields : 0..3, wellformed : BOOLEAN,
   alg : {"HS256", "RS256", "none"}, key : SigningKeys, expired : BOOLEAN,
   id : JSONKinds, name : JSONKinds]

\* The header of a token as User.GenerateToken issues it: "Bearer <jwt>",
\* HS256 with the server's secret, exp eight hours ahead, the id (a uuid,
\* marshalled as its text) and the name as JSON strings.
IssuedHeader ==
  [prefix |-> TRUE, nfields |-> 2, wellformed |-> TRUE, alg |-> "HS256",
   key |-> JWTSecret, expired |-> FALSE, id |-> "string", name |-> "string"]

\* In how many respects a header differs from an issued one.
Defects(h) == Cardinality({f \in DOMAIN h : h[f] # IssuedHeader[f]})

\* The headers of the model: those within MaxDefects of an issued one.
Headers == {h \in AllHeaders : Defects(h) <= MaxDefects}

\* User.parseToken: jwt.Parse with a key function that accepts only HMAC
\* methods and returns the server's secret; Parse verifies the signature and
\* the exp claim.
parseToken(h) ==
  IF ~h.wellformed THEN [err |-> Unauthenticated, valid |-> FALSE]
  ELSE IF h.alg # "HS256" THEN [err |-> Unauthenticated, valid |-> FALSE]
  ELSE IF h.key # JWTSecret THEN [err |-> Unauthenticated, valid |-> FALSE]
  ELSE IF h.expired THEN [err |-> Unauthenticated, valid |-> FALSE]
  ELSE [err |-> ErrNil, valid |-> TRUE]

\* User.bindTokenToUserEntity: claim["id"].(uuid.UUID), claim["name"].(string)
bindTokenToUserEntity(h) ==
  IF JSONDecode(h.id) # "uuid.UUID" THEN Unauthenticated
  ELSE IF JSONDecode(h.name) # "string" THEN Unauthenticated
  ELSE ErrNil

\* User.ValidateToken
ValidateToken(h) ==
  IF ~h.prefix THEN Unauthenticated
  ELSE IF h.nfields # 2 THEN Unauthenticated
  ELSE IF parseToken(h).err # ErrNil THEN parseToken(h).err
  ELSE IF ~parseToken(h).valid THEN Unauthenticated
  ELSE bindTokenToUserEntity(h)

\* The users tokens are generated for: an id (a uuid) and a name.
UserNames == {"", "tom"}

TokenUsers == [Id : Users, Name : UserNames]

\* domain.NewUser(): a new uuid as Id, the other fields zero.
NewUser == [Id |-> "new-uuid", Name |-> ""]

\* encoding/json of a claim value: a uuid.UUID is marshalled as its text, a
\* string as itself; both arrive as JSON strings.
JSONMarshal(goType, val) ==
  CASE goType = "uuid.UUID" -> [kind |-> "string", text |-> val]
    [] goType = "string" -> [kind |-> "string", text |-> val]
    [] goType = "int64" -> [kind |-> "number", text |-> val]

\* User.GenerateToken: the issued header and the claims it carries.
GenerateToken(u) ==
  LET id == JSONMarshal("uuid.UUID", u.Id)
      name == JSONMarshal("string", u.Name)
  IN  [header |-> [IssuedHeader EXCEPT !.id = id.kind, !.name = name.kind],
       id |-> id, name |-> name]

\* The User after ValidateToken on the token: bindTokenToUserEntity assigns
\* u.Id when the id claim is a uuid.UUID and then u.Name when the name claim
\* is a string, and is reached only when the token parsed and is valid.
BoundUser(user, tok) ==
  LET h == tok.header
      reached == /\ h.prefix
                 /\ h.nfields = 2
                 /\ parseToken(h).err = ErrNil
                 /\ parseToken(h).valid
      idOk == reached /\ JSONDecode(tok.id.kind) = "uuid.UUID"
      nameOk == idOk /\ JSONDecode(tok.name.kind) = "string"
  IN  [Id |-> IF idOk THEN tok.id.text ELSE user.Id,
       Name |-> IF nameOk THEN tok.name.text ELSE user.Name]

----------------------------------------------------------------------------
(* Authentication middleware and routes *)

\* (spec) UserRepository.GetByEmail: an error when no user has the email.
RegisteredEmails == {"owner@cats.social"}

GetByEmail(email) == email \in RegisteredEmails

\* domain.NewUser(): the Email of the user ValidateToken fills is never set.
NewUserEmail == ""

\* The middleware answering 401 without aborting the handler chain.
AuthenticationNoAbort(h) ==
  IF ValidateToken(h) # ErrNil \/ ~GetByEmail(NewUserEmail)
  THEN [aborted |-> FALSE, status |-> Status(Unauthenticated), userData |-> FALSE]
  ELSE [aborted |-> FALSE, status |-> 200, userData |-> TRUE]

\* authServiceImpl.Authentication: what the middleware does with a request.
Authentication(h) ==
  IF ValidateToken(h) # ErrNil
  THEN [aborted |-> TRUE, status |-> Status(Unauthenticated), userData |-> FALSE]
  ELSE IF ~GetByEmail(NewUserEmail)
  THEN [aborted |-> TRUE, status |-> Status(Unauthenticated), userData |-> FALSE]
  ELSE [aborted |-> FALSE, status |-> 200, userData |-> TRUE]

Route(method, path, group) == [method |-> method, path |-> path, group |-> group]

\* Server.RegisterRoutes: the routes, each with the group it is registered in.
RegisteredRoutes ==
  {Route("POST", "/v1/user/register", "user"),
   Route("POST", "/v1/user/login", "user"),
   Route("GET", "/v1/cat", "cat"),
   Route("POST", "/v1/cat", "cat"),
   Route("PUT", "/v1/cat/:catId", "cat"),
   Route("DELETE", "/v1/cat/:catId", "cat"),
   Route("GET", "/v1/cat/match", "cat")}

\* cat.Use(...Authentication(s.db)): the groups whose routes carry the
\* middleware; the match group is created from the cat group.
AuthenticatedGroups == {"cat"}

\* The requests of the model: the registered routes and one that is not.
Requests == RegisteredRoutes \cup {Route("POST", "/v1/cat/match", "none")}

\* The router serving a request: no route, or the route's middleware and then,
\* unless the middleware aborted, its handler.
ServeHTTP(route, h) ==
  IF route \notin RegisteredRoutes
  THEN [status |-> 404, handlerRan |-> FALSE, userData |-> FALSE]
  ELSE IF route.group \in AuthenticatedGroups
  THEN LET a == Authentication(h)
       IN  [status |-> a.status, handlerRan |-> ~a.aborted, userData |-> a.userData]
  ELSE [status |-> 200, handlerRan |-> TRUE, userData |-> FALSE]

Request(route, h) ==
  /\ LET r == ServeHTTP(route, h)
     IN  last' = [op |-> "Request", entry |-> "http", route |-> route,
                  header |-> h, status |-> r.status,
                  handlerRan |-> r.handlerRan, userData |-> r.userData,
                  err |-> ErrNil, pre |-> cat_matches]
  /\ UNCHANGED <<cats, cat_matches, txs>>

\* A token generated for u and then validated on a new User, as the
\* middleware does with the header of a request.
TokenRoundTrip(u) ==
  /\ LET tok == GenerateToken(u)
     IN  last' = [op |-> "TokenRoundTrip", entry |-> "http", user |-> u,
                  header |-> tok.header, err |-> ValidateToken(tok.header),
                  bound |-> BoundUser(NewUser, tok),
                  handlerRan |-> ~Authentication(tok.header).aborted,
                  pre |-> cat_matches]
  /\ UNCHANGED <<cats, cat_matches, txs>>

NextHTTP ==
  \/ \E route \in Requests, h \in Headers : Request(route, h)
  \/ \E u \in TokenUsers : TokenRoundTrip(u)

\* The server answering requests to its routes.
SpecHTTP == Init /\ [][NextHTTP]_vars

----------------------------------------------------------------------------
(* The filter of the cat list (validateGetAllCatsQueryParams, part_001) *)

\* Strings whose content the code inspects are sequences of characters.
Digits == {"0", "1", "2", "3", "4", "5", "6", "7", "8", "9"}

\* A well-formed uuid, abbreviated; uuid.Parse accepts these texts only.
UUIDText == <<"6", "f", "-", "4", "a">>

\* user.Id.String() of the authenticated user.
UserIdText == <<"e", "9", "-", "1", "c">>

UUIDTexts == {UUIDText, UserIdText}

uuidParse(text) == text \in UUIDTexts

\* (spec) domain.CatQueryParams: the keys the list endpoint accepts.
CatQueryParams ==
  {"id", "limit", "offset", "race", "sex", "hasMatched", "ageInMonth",
   "owned", "search"}

\* The keys and the values of the requests of the model: every accepted key
\* and one that is not; the empty value, the booleans, a uuid, a number, a
\* comparison, and texts that hold a comparison somewhere inside.
QueryKeys == CatQueryParams \cup {"deleted"}

QueryValues ==
  {<< >>,
   <<"t", "r", "u", "e">>,
   <<"f", "a", "l", "s", "e">>,
   UUIDText,
   <<"5">>,
   <<">", "5">>,
   <<">", "=", "1", "2">>,
   <<"x", "=", "1", ";">>}

\* regexp `([>=<])(\d+)`, FindStringSubmatch: the leftmost operator that a
\* digit follows, with the longest run of digits after it; << >> when there
\* is none, <<match, operator, digits>> otherwise.
FindOperatorAndNumber(text) ==
  LET starts == {i \in 1..(Len(text) - 1) :
                   text[i] \in {">", "=", "<"} /\ text[i + 1] \in Digits}
  IN  IF starts = {} THEN << >>
      ELSE LET i == CHOOSE x \in starts : \A y \in starts : x <= y
               ends == {j \in (i + 1)..Len(text) :
                          \A m \in (i + 1)..j : text[m] \in Digits}
               j == CHOOSE x \in ends : \A y \in ends : y <= x
           IN  <<SubSeq(text, i, j), text[i], SubSeq(text, i + 1, j)>>

\* fmt.Sprintf("%s %s $%d", key, opr, n): the text of a clause.
Clause(key, opr, n) == [col |-> key, opr |-> opr, ph |-> n]

\* qParamsToSkip without the test of the allow-list.
qParamsToSkipEmptyOnly(key, value) == Len(value) < 1

\* qParamsToSkip := undefinedParam || limitOffset || emptyValue, where it is
\* evaluated (limit and offset have been dealt with).
qParamsToSkip(key, value) == key \notin CatQueryParams \/ Len(value) < 1

\* The body of the loop for one key and its first value.
FilterParam(acc, key, value, userId) ==
  LET n == Len(acc.args) + 1
  IN  IF key = "limit" \/ key = "offset"
      THEN [acc EXCEPT
              !.limitOffsetClause = Append(@, Clause(key, "", n)),
              !.args = Append(@, IF Len(value) < 1
                                 THEN IF key = "limit" THEN <<"5">> ELSE <<"0">>
                                 ELSE value)]
      ELSE IF qParamsToSkip(key, value) THEN acc
      ELSE IF key = "id" /\ ~uuidParse(value) THEN acc
      ELSE IF key = "ageInMonth"
      THEN LET matches == FindOperatorAndNumber(value)
           IN  IF Len(matches) # 3 THEN acc
               ELSE [acc EXCEPT
                       !.whereClause =
                          Append(@, Clause("age_in_month", matches[2], n)),
                       !.args = Append(@, matches[3])]
      ELSE IF key = "owned"
      THEN IF value # <<"t", "r", "u", "e">>
                /\ value # <<"f", "a", "l", "s", "e">>
           THEN acc
           ELSE IF value = <<"f", "a", "l", "s", "e">>
           THEN [acc EXCEPT
                   !.whereClause = Append(@, Clause("owned_by_id", "!=", n)),
                   !.args = Append(@, userId)]
           ELSE [acc EXCEPT
                   !.whereClause = Append(@, Clause("owned_by_id", "=", n)),
                   !.args = Append(@, userId)]
      ELSE LET col == IF key = "hasMatched" THEN "has_matched"
                      ELSE IF key = "search" THEN "name"
                      ELSE key
           IN  [acc EXCEPT
                  !.whereClause = Append(@, Clause(col, "=", n)),
                  !.args = Append(@, value)]

\* validateGetAllCatsQueryParams: the loop over the parameters, in the
\* order the map yields them.
RECURSIVE FilterFrom(_, _, _)
FilterFrom(acc, params, userId) ==
  IF params = << >> THEN acc
  ELSE FilterFrom(FilterParam(acc, Head(params).key, Head(params).value, userId),
                  Tail(params), userId)

validateGetAllCatsQueryParams(params, userId) ==
  FilterFrom([whereClause |-> << >>, limitOffsetClause |-> << >>, args |-> << >>],
             params, userId)

\* GetAllCats: the clauses of the statement in the order of its text, the
\* filters after "WHERE deleted = false" and before ORDER BY, then the
\* limit and offset clauses.
GetAllCatsQuery(f) == f.whereClause \o f.limitOffsetClause

\* url.Values: one entry per key; range yields the entries in any order.
QueryParams ==
  {ps \in UNION {[1..n -> [key : QueryKeys, value : QueryValues]] : n \in 0..MaxParams} :
     \A i \in DOMAIN ps, j \in DOMAIN ps : i # j => ps[i].key # ps[j].key}

\* A request for the list with its query parameters, before it is served.
InitQuery ==
  /\ cats = << >>
  /\ cat_matches = << >>
  /\ txs = [t \in Txs |-> IdleTx]
  /\ \E ps \in QueryParams :
       last = [op |-> "query", entry |-> "cat", params |-> ps,
               userId |-> UserIdText, err |-> ErrNil, pre |-> << >>]

\* GetAllCats up to db.Query: the filter built from the parameters.
GetAllCats ==
  /\ last.op = "query"
  /\ LET f == validateGetAllCatsQueryParams(last.params, last.userId)
     IN  last' = [op |-> "GetAllCats", entry |-> "cat", params |-> last.params,
                  userId |-> last.userId, whereClause |-> f.whereClause,
                  limitOffsetClause |-> f.limitOffsetClause, args |-> f.args,
                  query |-> GetAllCatsQuery(f), err |-> ErrNil, pre |-> << >>]
  /\ UNCHANGED <<cats, cat_matches, txs>>

NextQuery == GetAllCats

\* The list endpoint building its filter for any request.
SpecQuery == InitQuery /\ [][NextQuery]_vars

----------------------------------------------------------------------------
(* Vocabulary of the properties *)

\* The four creation predicates of section 3 hold of the request.
ValidRequest(cs, req) ==
  LET a == req.user_cat_id
      b == req.match_cat_id
  IN  /\ CheckBothCatExists(cs, a, b).val
      /\ CheckCatHasSameSex(cs, a, b).ok /\ ~CheckCatHasSameSex(cs, a, b).val
      /\ CheckCatFromSameOwner(cs, a, b).ok /\ ~CheckCatFromSameOwner(cs, a, b).val
      /\ CheckCatHasMatched(cs, a, b).ok /\ ~CheckCatHasMatched(cs, a, b).val

\* The last call was a call of the match service (directly or by a handler
\* that calls it).
MatchServiceCall ==
  /\ last.op \in {"CreateCatMatch", "GetCatMatches", "DeleteCatMatch"}
  /\ ~(last.op = "DeleteCatMatch" /\ last.entry = "handler")

\* The row of the table before the last call that the call names.
NamedRows == {r \in RowSet(last.pre) : r.id = last.id}

RequesterIsIssuer == \E r \in NamedRows : Issuer(cats, r) = last.requester

\* The rows of the table in which user p is issuer or receiver, as indices.
ParticipantIdx(p) ==
  {i \in 1..Len(cat_matches) :
     Issuer(cats, cat_matches[i]) = p \/ Receiver(cats, cat_matches[i]) = p}

\* The infrastructure failure given to the last call was reached by it.
FailureReached ==
  LET canDelete == RepoCanDeleteCatMatch(cats, last.pre, last.id, PlaceholderUserId)
      waiting == \E r \in NamedRows : r.status = "waiting"
  IN  CASE last.fail = "none" -> FALSE
        [] last.fail \in {"begin", "canDelete"} -> TRUE
        [] last.fail = "getStatus" -> canDelete
        [] last.fail = "exec" ->
             IF last.op = "DeleteCatMatch" THEN canDelete /\ waiting ELSE TRUE
        [] last.fail = "commit" ->
             CASE last.op = "DeleteCatMatch" -> canDelete /\ waiting
               [] last.op = "CreateCatMatch" ->
                    ~RepoCreateCatMatch(cats, last.pre, last.payload, FALSE).err
               [] OTHER -> TRUE

----------------------------------------------------------------------------
(* C1: a creation request whose two cats exist, are not deleted, differ in  *)
(* sex and in owner and have not matched succeeds (201 through the          *)
(* handler), persists exactly one new waiting row referencing the two       *)
(* requested cats, and that row is listed for both participants.            *)
C1_ValidCreateSucceeds ==
  (/\ last.op = "CreateCatMatch"
   /\ last.fail = "none"
   /\ ValidRequest(cats, last.req))
  => /\ last.err = ErrNil
     /\ last.entry = "handler" => last.status = 201
     /\ Len(cat_matches) = Len(last.pre) + 1
     /\ SubSeq(cat_matches, 1, Len(last.pre)) = last.pre
     /\ LET row == cat_matches[Len(cat_matches)]
        IN  /\ row.status = "waiting"
            /\ row.user_cat_id = last.req.user_cat_id
            /\ row.match_cat_id = last.req.match_cat_id
            /\ \A p \in {Issuer(cats, row), Receiver(cats, row)} :
                 LET resp == SvcGetCatMatches(cats, cat_matches, p, "none").resp
                 IN  \E i \in 1..Len(resp) : resp[i].ID = row.id

(* C2: a creation request that violates a creation predicate fails with     *)
(* BadRequest or NotFound and leaves the match rows as they were.           *)
C2_InvalidCreateRejected ==
  (/\ last.op = "CreateCatMatch"
   /\ ~ValidRequest(cats, last.req))
  => /\ last.err \in {BadRequest, NotFound}
     /\ cat_matches = last.pre

(* C3: a delete removes the row only if the requester is the issuer of the  *)
(* match; a requester who is not the issuer (or a match that does not       *)
(* exist) gets NotFound and the rows are unchanged.                         *)
C3_DeleteOnlyByIssuer ==
  (last.op = "DeleteCatMatch" /\ last.entry = "service")
  => /\ cat_matches # last.pre => RequesterIsIssuer
     /\ (last.fail = "none" /\ ~RequesterIsIssuer)
        => (last.err = NotFound /\ cat_matches = last.pre)

(* C4: deleting a match that is not waiting, by its issuer, fails with      *)
(* BadRequest and leaves every row unchanged.                               *)
C4_NonWaitingDeleteRejected ==
  (/\ last.op = "DeleteCatMatch"
   /\ last.entry = "service"
   /\ last.fail = "none"
   /\ RequesterIsIssuer
   /\ \E r \in NamedRows : r.status # "waiting")
  => /\ last.err = BadRequest
     /\ cat_matches = last.pre

(* C5 as stated: every match service call (create, list, delete) in which   *)
(* a step fails returns an error with the state unchanged; none returns an  *)
(* error after a visible change, none returns success without a commit.     *)
C5_AtomicAllCalls ==
  MatchServiceCall
  => /\ last.err # ErrNil => (cat_matches = last.pre /\ last.tx # "committed")
     /\ last.err = ErrNil => last.tx = "committed"
     /\ FailureReached => last.err # ErrNil

(* C5 amended: a call that returns an error, or whose transaction did not   *)
(* commit, leaves the rows as they were; create and delete return success   *)
(* exactly when they committed and an error whenever a step failed; list    *)
(* never changes the rows, returns an error when begin or the query fails,  *)
(* and returns success whether or not its commit succeeded.                 *)
C5_Atomic ==
  MatchServiceCall
  => /\ last.err # ErrNil => (cat_matches = last.pre /\ last.tx # "committed")
     /\ last.tx # "committed" => cat_matches = last.pre
     /\ last.op \in {"CreateCatMatch", "DeleteCatMatch"}
        => /\ last.err = ErrNil <=> last.tx = "committed"
           /\ FailureReached => last.err # ErrNil
     /\ last.op = "GetCatMatches"
        => /\ cat_matches = last.pre
           /\ last.fail \in {"begin", "exec"} => last.err # ErrNil
           /\ last.fail \in {"none", "commit"} => last.err = ErrNil

\* A delete of a waiting match by the user of the authorization check whose
\* commit failed: the row is still there.
C5_Witness ==
  /\ last.op = "DeleteCatMatch"
  /\ last.entry = "service"
  /\ last.fail = "commit"
  /\ FailureReached
  /\ last.err # ErrNil
  /\ NamedRows # {}
  /\ cat_matches = last.pre

\* The entries a listing for p has to hold: one per row of p, in table order.
ListingIsExact(p, resp) ==
  /\ Len(resp) = Cardinality(ParticipantIdx(p))
  /\ \A i \in ParticipantIdx(p) :
       LET k == Cardinality({j \in ParticipantIdx(p) : j <= i})
           row == cat_matches[i]
       IN  /\ resp[k].ID = row.id
           /\ resp[k].Message = row.message
           /\ resp[k].UserCat.ID = row.user_cat_id
           /\ resp[k].UserCat.Sex = cats[row.user_cat_id].sex
           /\ resp[k].UserCat.HasMatched = cats[row.user_cat_id].has_matched
           /\ resp[k].MatchCat.ID = row.match_cat_id
           /\ resp[k].MatchCat.Sex = cats[row.match_cat_id].sex
           /\ resp[k].MatchCat.HasMatched = cats[row.match_cat_id].has_matched

(* C6 as stated: for every participant and every persisted state the        *)
(* listing returns, without error, exactly one entry per row of the         *)
(* participant, in table order, each with the id, message and cats of its   *)
(* row.                                                                     *)
C6_ListAlwaysExact ==
  last.op = "GetCatMatches"
  => /\ last.err = ErrNil
     /\ ListingIsExact(last.requester, last.resp)

(* C6 amended: when the transaction begins and the query succeeds, the      *)
(* listing returns, without error, exactly one entry per row in which the   *)
(* participant is issuer or receiver, in table order, each with the id,     *)
(* message and both cats of its row (the empty sequence when there is no    *)
(* such row); when BeginTx or the query fails it returns BadRequest.        *)
C6_ListExact ==
  last.op = "GetCatMatches"
  => /\ last.fail \in {"none", "commit"}
        => /\ last.err = ErrNil
           /\ ListingIsExact(last.requester, last.resp)
           /\ ParticipantIdx(last.requester) = {} => last.resp = << >>
     /\ last.fail \in {"begin", "exec"}
        => /\ last.err = BadRequest
           /\ last.resp = << >>

\* A listing of two entries for a user who is issuer of one row and
\* receiver of the other.
C6_Witness ==
  /\ last.op = "GetCatMatches"
  /\ last.err = ErrNil
  /\ Len(last.resp) = 2
  /\ \E i, j \in ParticipantIdx(last.requester) :
       /\ Issuer(cats, cat_matches[i]) = last.requester
       /\ Receiver(cats, cat_matches[i]) # last.requester
       /\ Receiver(cats, cat_matches[j]) = last.requester
       /\ Issuer(cats, cat_matches[j]) # last.requester

(* C7: every match row references two distinct cats, neither soft-deleted,  *)
(* owned by two distinct users.                                             *)
C7_MatchReferencesTwoLiveCats ==
  \A r \in RowSet(cat_matches) :
    /\ r.user_cat_id # r.match_cat_id
    /\ r.user_cat_id \in DOMAIN cats
    /\ r.match_cat_id \in DOMAIN cats
    /\ ~cats[r.user_cat_id].deleted
    /\ ~cats[r.match_cat_id].deleted
    /\ cats[r.user_cat_id].owned_by_id # cats[r.match_cat_id].owned_by_id

\* The cats a match row references, as issuer's cat or as receiver's cat.
ReferencedCats ==
  {r.user_cat_id : r \in RowSet(cat_matches)}
    \cup {r.match_cat_id : r \in RowSet(cat_matches)}

(* C8: no operation changes the sex or the owner of a cat that a match row  *)
(* references, as the issuer's cat or as the receiver's cat.                *)
C8_MatchedCatImmutable ==
  [][\A c \in ReferencedCats :
       /\ cats'[c].sex = cats[c].sex
       /\ cats'[c].owned_by_id = cats[c].owned_by_id]_vars

(* C10: a failure of BeginTx, of a repository statement or of Commit in a   *)
(* match service call is reported as InternalServerError; BadRequest and    *)
(* NotFound are never the report of such a failure.                         *)
C10_InfraFailureIsInternalError ==
  (MatchServiceCall /\ FailureReached) => last.err = InternalServerError

\* The header is "Bearer <jwt>" with a well-formed, unexpired JWT signed
\* with the server's secret by an HMAC method.
GoodToken(h) ==
  /\ h.prefix
  /\ h.nfields = 2
  /\ h.wellformed
  /\ h.alg = "HS256"
  /\ h.key = JWTSecret
  /\ ~h.expired

(* C9: for a request to a route of the /v1/cat group (the match routes      *)
(* included) the handler runs only after the middleware validated the       *)
(* bearer token and found the user; a request whose token is missing, not   *)
(* Bearer, malformed, wrongly signed or expired is aborted with 401 and its *)
(* handler does not run; userData is set only when the handler is reached.  *)
C9_HandlerOnlyAfterAuthentication ==
  (/\ last.op = "Request"
   /\ last.route \in RegisteredRoutes
   /\ last.route.path \in {"/v1/cat", "/v1/cat/:catId", "/v1/cat/match"})
  => /\ last.handlerRan
        => /\ GoodToken(last.header)
           /\ GetByEmail(NewUserEmail)
           /\ last.userData
     /\ ~GoodToken(last.header)
        => /\ last.status = Status(Unauthenticated)
           /\ ~last.handlerRan
     /\ last.userData => last.handlerRan

\* A request to GET /v1/cat/match whose token is signed with another key and
\* is sound otherwise: answered 401, handler not run.
C9_Witness ==
  /\ last.op = "Request"
  /\ last.route = Route("GET", "/v1/cat/match", "cat")
  /\ last.header.prefix /\ last.header.nfields = 2 /\ last.header.wellformed
  /\ last.header.alg = "HS256" /\ ~last.header.expired
  /\ last.header.key # JWTSecret
  /\ last.status = 401
  /\ ~last.handlerRan
  /\ ~last.userData

----------------------------------------------------------------------------
(* Order of the creation predicates *)

\* The creation predicates of section 4.2 in their order, and the message
\* of the failure of those that section 4.2 gives a message for.
CreatePredicates ==
  <<"CheckBothCatExists", "CheckCatHasSameSex", "CheckCatFromSameOwner",
    "CheckCatHasMatched">>

PredicateMessage(p) ==
  CASE p = "CheckCatHasSameSex" -> "cats must have different sex"
    [] p = "CheckCatFromSameOwner" -> "cannot match own cat"
    [] p = "CheckCatHasMatched" -> "already matched"

\* The request violates the predicate.
Violates(cs, req, p) ==
  LET a == req.user_cat_id
      b == req.match_cat_id
  IN  CASE p = "CheckBothCatExists" -> ~CheckBothCatExists(cs, a, b).val
        [] p = "CheckCatHasSameSex" -> CheckCatHasSameSex(cs, a, b).val
        [] p = "CheckCatFromSameOwner" -> CheckCatFromSameOwner(cs, a, b).val
        [] p = "CheckCatHasMatched" -> CheckCatHasMatched(cs, a, b).val

\* The index of the earliest violated predicate, 0 when there is none.
EarliestViolated(cs, req) ==
  LET bad == {k \in DOMAIN CreatePredicates : Violates(cs, req, CreatePredicates[k])}
  IN  IF bad = {} THEN 0 ELSE CHOOSE k \in bad : \A m \in bad : k <= m

\* The statements of a create that evaluates the predicates in order, stops
\* at the k-th when k > 0, and inserts and commits when k = 0.
OrderedStatements(k) ==
  IF k = 0
  THEN <<"BeginTx">> \o CreatePredicates \o <<"CreateCatMatch", "Commit">>
  ELSE <<"BeginTx">> \o SubSeq(CreatePredicates, 1, k)

(* C11: a CreateMatch call evaluates BothCatsExist, HasSameSex,             *)
(* FromSameOwner and HasMatched in that order and attempts the insert only  *)
(* after all four passed; for a request that violates predicates it stops   *)
(* at the earliest violated one and reports that predicate's error.         *)
C11_PredicatesInOrder ==
  (/\ last.op = "CreateCatMatch"
   /\ last.entry = "service"
   /\ last.fail = "none")
  => LET run == SvcCreateCatMatchRun(cats, last.pre, last.payload, last.fail)
         k == EarliestViolated(cats, last.payload)
     IN  /\ run.stmts = OrderedStatements(k)
         /\ k > 0 => last.err = BadRequest
         /\ k > 1 => run.msg = PredicateMessage(CreatePredicates[k])

----------------------------------------------------------------------------
(* Concurrent creation *)

\* The cats a row references.
RowCats(row) == {row.user_cat_id, row.match_cat_id}

\* The insert of the payload violates no constraint of the table.
ConstraintsHold(cs, payload) ==
  /\ ~payload.nil
  /\ payload.user_cat_id \in DOMAIN cs
  /\ payload.match_cat_id \in DOMAIN cs

----------------------------------------------------------------------------
(* Token round trip *)

(* C13: a token generated for a user, presented as "Bearer <token>" with    *)
(* the same secret and before its expiry, is validated without error on a   *)
(* new User, which then carries the user's Id and Name, and the middleware  *)
(* lets the request through.                                                *)
C13_TokenRoundTrip ==
  last.op = "TokenRoundTrip"
  => /\ last.err = ErrNil
     /\ last.bound.Id = last.user.Id
     /\ last.bound.Name = last.user.Name
     /\ last.handlerRan

----------------------------------------------------------------------------
(* The filter of the cat list *)

FilterColumns ==
  {"id", "name", "race", "sex", "has_matched", "age_in_month", "owned_by_id"}

FilterOperators == {"=", "!=", ">", "<"}

\* The query parameter a column is filtered by.
ColumnKey(col) ==
  CASE col = "name" -> "search"
    [] col = "has_matched" -> "hasMatched"
    [] col = "age_in_month" -> "ageInMonth"
    [] col = "owned_by_id" -> "owned"
    [] OTHER -> col

\* The parameters of the request that have the key.
ParamsOf(params, key) == {i \in DOMAIN params : params[i].key = key}

\* arg is a number that stands in the text right after the operator.
NumberAfterOperator(text, opr, arg) ==
  /\ Len(arg) >= 1
  /\ \A m \in DOMAIN arg : arg[m] \in Digits
  /\ \E i \in DOMAIN text :
       /\ text[i] = opr
       /\ i + Len(arg) <= Len(text)
       /\ SubSeq(text, i + 1, i + Len(arg)) = arg

\* The WHERE predicate is the fixed effect of an accepted parameter with a
\* non-empty value, and arg is the value bound for it.
FilterOf(params, userId, c, arg) ==
  /\ c.col \in FilterColumns
  /\ c.opr \in FilterOperators
  /\ ColumnKey(c.col) \in CatQueryParams
  /\ \E i \in ParamsOf(params, ColumnKey(c.col)) :
       LET value == params[i].value
       IN  /\ value # << >>
           /\ CASE c.col = "owned_by_id" ->
                      /\ arg = userId
                      /\ \/ c.opr = "=" /\ value = <<"t", "r", "u", "e">>
                         \/ c.opr = "!=" /\ value = <<"f", "a", "l", "s", "e">>
                [] c.col = "age_in_month" ->
                      /\ c.opr \in {">", "=", "<"}
                      /\ NumberAfterOperator(value, c.opr, arg)
                [] OTHER -> c.opr = "=" /\ arg = value

\* The clause is the limit or the offset of a parameter of the request, and
\* arg is its value, or the default when the value is empty.
LimitOffsetOf(params, c, arg) ==
  /\ c.col \in {"limit", "offset"}
  /\ c.opr = ""
  /\ \E i \in ParamsOf(params, c.col) :
       arg = IF params[i].value # << >> THEN params[i].value
             ELSE IF c.col = "limit" THEN <<"5">> ELSE <<"0">>

(* C14: for every set of query parameters, every WHERE predicate the filter *)
(* emits comes from an allow-listed key with a non-empty value and has one  *)
(* of the fixed columns and operators, keys outside the allow-list          *)
(* contribute nothing, every clause (filter, limit, offset) carries the     *)
(* placeholder $k such that the k-th arg is the value bound for it, there   *)
(* are as many args as clauses, and no value is copied into the text of a   *)
(* clause other than the validated comparison operator.                     *)
C14_FilterIsAllowListed ==
  last.op = "GetAllCats"
  => LET w == last.whereClause
         lo == last.limitOffsetClause
         q == last.query
     IN  /\ \A i \in DOMAIN w :
              /\ w[i].ph \in DOMAIN last.args
              /\ FilterOf(last.params, last.userId, w[i], last.args[w[i].ph])
         /\ \A i \in DOMAIN lo :
              /\ lo[i].ph \in DOMAIN last.args
              /\ LimitOffsetOf(last.params, lo[i], last.args[lo[i].ph])
         /\ Len(last.args) = Len(w) + Len(lo)
         /\ Len(q) = Len(w) + Len(lo)
         /\ {q[i].ph : i \in DOMAIN q} = DOMAIN last.args
         /\ \A i \in DOMAIN q, j \in DOMAIN q : i # j => q[i].col # q[j].col
         /\ \A i \in DOMAIN last.params :
              last.params[i].key \notin CatQueryParams
              => Len(q) <= Len(last.params) - 1

\* A request with a key outside the allow-list that has a value and with
\* ageInMonth=">=12": the filter is the one predicate age_in_month = $1
\* with the arg 12.
C14_Witness ==
  /\ last.op = "GetAllCats"
  /\ \E i \in DOMAIN last.params :
       /\ last.params[i].key \notin CatQueryParams
       /\ last.params[i].value # << >>
  /\ \E i \in DOMAIN last.params :
       /\ last.params[i].key = "ageInMonth"
       /\ last.params[i].value = <<">", "=", "1", "2">>
  /\ last.whereClause = <<Clause("age_in_month", "=", 1)>>
  /\ last.limitOffsetClause = << >>
  /\ last.args = <<<<"1", "2">>>>

====
